---- MODULE Spec2Model ----
(***************************************************************************)
(* A model of package owm (src/owm.go, lines 1-346): a Client holding an   *)
(* API key and a base URL, nine public query methods that assemble a URL,  *)
(* and three helpers (weather, weatherSet, forecast) that append the key,  *)
(* fetch the URL through data() and decode the body.                       *)
(*                                                                         *)
(* Go strings are modelled as sequences of one-character strings, so that  *)
(* concatenation, slicing and substring search are what the code does.     *)
(* A float64 is modelled as the dyadic rational m / 2^e it denotes.        *)
(* A response body is modelled as its sequence of JSON tokens.             *)
(***************************************************************************)
EXTENDS Integers, Sequences, FiniteSets, TLC

VARIABLES client, calls, crashed

vars == <<client, calls, crashed>>

(***************************************************************************)
(* String literals of the source.                                          *)
(***************************************************************************)
BaseURLText == <<"h","t","t","p",":","/","/","a","p","i",".","o","p","e","n","w","e","a","t","h","e","r","m","a","p",".","o","r","g","/","d","a","t","a","/","2",".","5","/">>
sWeather == <<"w","e","a","t","h","e","r">>
sBoxCity == <<"b","o","x","/","c","i","t","y">>
sFind == <<"f","i","n","d">>
sGroup == <<"g","r","o","u","p">>
sForecastiDaily == <<"f","o","r","e","c","a","s","t","i","/","d","a","i","l","y">>
sForecastDaily == <<"f","o","r","e","c","a","s","t","/","d","a","i","l","y">>
sForecast == <<"f","o","r","e","c","a","s","t">>
sQ == <<"?","q","=">>
sId == <<"?","i","d","=">>
sLat == <<"?","l","a","t","=">>
sLon == <<"&","l","o","n","=">>
sBbox == <<"?","b","b","o","x","=">>
sCnt == <<"&","c","n","t","=">>
sUnits == <<"&","u","n","i","t","s","=">>
sAppid == <<"&","A","P","P","I","D","=">>
sComma == <<",">>

ErrFetchWeather == "owm: error while fetching weather data"
ErrDecodeWeather == "owm: error while decoding weather data"
ErrFetchForecast == "owm: error while fetching forecast data"
ErrDecodeForecast == "owm: error while decoding forecast data"
Nil == "nil"

(***************************************************************************)
(* strings.Contains.                                                       *)
(***************************************************************************)
OccursAt(s, pat, i) ==
    /\ i >= 1
    /\ i + Len(pat) - 1 <= Len(s)
    /\ \A k \in 1..Len(pat) : s[i + k - 1] = pat[k]

\* strings.Contains(s, pat)
Contains(s, pat) == \E i \in 1..(Len(s) - Len(pat) + 1) : OccursAt(s, pat, i)

(***************************************************************************)
(* strconv.Itoa and strconv.FormatFloat(x, 'f', 2, 64).                    *)
(***************************************************************************)
DigitChars == <<"0","1","2","3","4","5","6","7","8","9">>

Digit(d) == DigitChars[d + 1]

RECURSIVE ItoaNat(_)
ItoaNat(n) == IF n < 10 THEN <<Digit(n)>> ELSE ItoaNat(n \div 10) \o <<Digit(n % 10)>>

\* strconv.Itoa(n)
Itoa(n) == IF n < 0 THEN <<"-">> \o ItoaNat(-n) ELSE ItoaNat(n)

Abs(n) == IF n < 0 THEN -n ELSE n

\* The value of x in hundredths, rounded to nearest, ties to even:
\* x = m / 2^e exactly, as every finite float64 is.
RoundHundredths(x) ==
    LET a == Abs(x.m)
        p == 2 ^ x.e
        q == (100 * a) \div p
        r == (100 * a) % p
    IN  IF 2 * r > p THEN q + 1
        ELSE IF 2 * r < p THEN q
        ELSE IF q % 2 = 0 THEN q ELSE q + 1

\* FormatFloat with the digits after the second cut off instead of rounded.
FormatFloat_Truncated(x) ==
    LET h == (100 * Abs(x.m)) \div (2 ^ x.e)
    IN  (IF x.m < 0 THEN <<"-">> ELSE <<>>)
        \o ItoaNat(h \div 100)
        \o <<".">>
        \o <<Digit((h % 100) \div 10), Digit(h % 10)>>

\* strconv.FormatFloat(x, 'f', 2, 64) of a finite x
FormatFloat(x) ==
    LET h == RoundHundredths(x)
    IN  (IF x.m < 0 THEN <<"-">> ELSE <<>>)
        \o ItoaNat(h \div 100)
        \o <<".">>
        \o <<Digit((h % 100) \div 10), Digit(h % 10)>>

(***************************************************************************)
(* URL assembly: what each public method passes to its helper.             *)
(***************************************************************************)
\* WeatherByName with its two arguments exchanged in the URL.
WeatherByNameURL_ArgsSwapped(base, name, units) ==
    base \o sWeather \o sQ \o units \o sUnits \o name

WeatherByNameURL(base, name, units) ==
    base \o sWeather \o sQ \o name \o sUnits \o units

WeatherByIdURL(base, id, units) ==
    base \o sWeather \o sId \o Itoa(id) \o sUnits \o units

WeatherByCoordURL(base, lat, lon, units) ==
    base \o sWeather \o sLat \o FormatFloat(lat) \o sLon \o FormatFloat(lon)
         \o sUnits \o units

\* WeatherByZone with the two latitudes written before the two longitudes.
WeatherByZoneURL_LatsFirst(base, lat1, lon1, lat2, lon2, zoom, units) ==
    base \o sBoxCity \o sBbox
         \o FormatFloat(lat1) \o sComma
         \o FormatFloat(lat2) \o sComma
         \o FormatFloat(lon1) \o sComma
         \o FormatFloat(lon2) \o sComma
         \o Itoa(zoom)
         \o sUnits \o units

WeatherByZoneURL(base, lat1, lon1, lat2, lon2, zoom, units) ==
    base \o sBoxCity \o sBbox
         \o FormatFloat(lat1) \o sComma
         \o FormatFloat(lon1) \o sComma
         \o FormatFloat(lat2) \o sComma
         \o FormatFloat(lon2) \o sComma
         \o Itoa(zoom)
         \o sUnits \o units

WeatherByRadiusURL(base, lat, lon, radius, units) ==
    base \o sFind
         \o sLat \o FormatFloat(lat) \o sComma
         \o sLon \o FormatFloat(lon) \o sComma
         \o sCnt \o FormatFloat(radius)
         \o sUnits \o units

\* The loop of WeatherByIds: ids += strconv.Itoa(id[i]) + ","
RECURSIVE JoinIds(_)
JoinIds(id) ==
    IF Len(id) = 0 THEN <<>>
    ELSE JoinIds(SubSeq(id, 1, Len(id) - 1)) \o Itoa(id[Len(id)]) \o sComma

\* ids[:len(ids)-1] panics (slice bounds out of range) when ids is empty.
IdsSlicePanics(id) == Len(JoinIds(id)) - 1 < 0

\* WeatherByIds without the slice that drops the last comma.
WeatherByIdsURL_CommaKept(base, id, units) ==
    base \o sGroup \o sId \o JoinIds(id) \o sUnits \o units

WeatherByIdsURL(base, id, units) ==
    LET ids == JoinIds(id)
    IN  base \o sGroup \o sId \o SubSeq(ids, 1, Len(ids) - 1) \o sUnits \o units

\* url.QueryEscape of the two characters that separate query parameters.
RECURSIVE QueryEscape(_)
QueryEscape(s) ==
    IF Len(s) = 0 THEN <<>>
    ELSE (CASE s[1] = "&" -> <<"%","2","6">>
            [] s[1] = "=" -> <<"%","3","D">>
            [] OTHER -> <<s[1]>>) \o QueryEscape(Tail(s))

\* ForecastByName with the name escaped before it is concatenated.
ForecastByNameURL_Escaped(base, name, days, units) ==
    IF days > 0
    THEN base \o sForecastiDaily \o sQ \o QueryEscape(name) \o sCnt \o Itoa(days)
              \o sUnits \o units
    ELSE base \o sForecast \o sQ \o QueryEscape(name) \o sUnits \o units

ForecastByNameURL(base, name, days, units) ==
    IF days > 0
    THEN base \o sForecastiDaily \o sQ \o name \o sCnt \o Itoa(days) \o sUnits \o units
    ELSE base \o sForecast \o sQ \o name \o sUnits \o units

ForecastByIdURL(base, id, days, units) ==
    IF days > 0
    THEN base \o sForecastDaily \o sId \o Itoa(id) \o sCnt \o Itoa(days) \o sUnits \o units
    ELSE base \o sForecast \o sId \o Itoa(id) \o sUnits \o units

\* ForecastByCoord testing days != 0 where the code tests days > 0.
ForecastByCoordURL_NonZeroDays(base, lat, lon, days, units) ==
    IF days # 0
    THEN base \o sForecastDaily \o sLat \o FormatFloat(lat) \o sLon \o FormatFloat(lon)
              \o sCnt \o Itoa(days) \o sUnits \o units
    ELSE base \o sForecast \o sLat \o FormatFloat(lat) \o sLon \o FormatFloat(lon)
              \o sUnits \o units

ForecastByCoordURL(base, lat, lon, days, units) ==
    IF days > 0
    THEN base \o sForecastDaily \o sLat \o FormatFloat(lat) \o sLon \o FormatFloat(lon)
              \o sCnt \o Itoa(days) \o sUnits \o units
    ELSE base \o sForecast \o sLat \o FormatFloat(lat) \o sLon \o FormatFloat(lon)
              \o sUnits \o units

\* The helpers without the test for an empty key.
WithKey_Unconditional(key, url) == url \o sAppid \o key

\* The first statement of weather, weatherSet and forecast:
\* if c.key != "" { url += "&APPID=" + c.key }
WithKey(key, url) == IF key # <<>> THEN url \o sAppid \o key ELSE url

(***************************************************************************)
(* Response bodies as JSON token sequences.  A token is a string literal,  *)
(* a number literal (integral or with a fraction part), one of the         *)
(* literals null, true, false, a punctuation character, whitespace, or     *)
(* text that is no JSON token at all.                                      *)
(***************************************************************************)
Str(x) == [k |-> "str", s |-> x, n |-> 0]
Num(i) == [k |-> "num", s |-> "", n |-> i]
Frac(i) == [k |-> "num", s |-> "frac", n |-> i]
Lit(x) == [k |-> "lit", s |-> x, n |-> 0]
P(c) == [k |-> "punct", s |-> c, n |-> 0]
Ws == [k |-> "ws", s |-> " ", n |-> 0]
Junk == [k |-> "junk", s |-> "<html>", n |-> 0]

\* The marker the helpers search the raw body for: "cod":"404"
Marker == <<Str("cod"), P(":"), Str("404")>>

RECURSIVE SkipWs(_, _)
SkipWs(t, i) == IF i <= Len(t) /\ t[i].k = "ws" THEN SkipWs(t, i + 1) ELSE i

IsTok(t, i, tok) == i >= 1 /\ i <= Len(t) /\ t[i] = tok

\* The position just after the JSON value that starts at position i of t,
\* or 0 when no well-formed value starts there.
RECURSIVE EndOfValue(_, _)
RECURSIVE EndOfMembers(_, _, _)
RECURSIVE EndOfElems(_, _, _)
EndOfValue(t, i) ==
    IF i < 1 \/ i > Len(t) THEN 0
    ELSE IF t[i].k \in {"str", "num", "lit"} THEN i + 1
    ELSE IF t[i] = P("{") THEN EndOfMembers(t, SkipWs(t, i + 1), TRUE)
    ELSE IF t[i] = P("[") THEN EndOfElems(t, SkipWs(t, i + 1), TRUE)
    ELSE 0

EndOfMembers(t, i, first) ==
    IF first /\ IsTok(t, i, P("}")) THEN i + 1
    ELSE IF i > Len(t) \/ t[i].k # "str" THEN 0
    ELSE LET c == SkipWs(t, i + 1)
         IN  IF ~IsTok(t, c, P(":")) THEN 0
             ELSE LET e == EndOfValue(t, SkipWs(t, c + 1))
                      n == SkipWs(t, e)
                  IN  IF e = 0 THEN 0
                      ELSE IF IsTok(t, n, P(",")) THEN EndOfMembers(t, SkipWs(t, n + 1), FALSE)
                      ELSE IF IsTok(t, n, P("}")) THEN n + 1
                      ELSE 0

EndOfElems(t, i, first) ==
    IF first /\ IsTok(t, i, P("]")) THEN i + 1
    ELSE LET e == EndOfValue(t, i)
             n == SkipWs(t, e)
         IN  IF e = 0 THEN 0
             ELSE IF IsTok(t, n, P(",")) THEN EndOfElems(t, SkipWs(t, n + 1), FALSE)
             ELSE IF IsTok(t, n, P("]")) THEN n + 1
             ELSE 0

\* json.Unmarshal's first pass (checkValid): the whole input is one JSON value.
ValidJSON(t) ==
    LET e == EndOfValue(t, SkipWs(t, 1))
    IN  e # 0 /\ SkipWs(t, e) = Len(t) + 1

(***************************************************************************)
(* The Go types json.Unmarshal decodes into.                               *)
(***************************************************************************)
TInt == [k |-> "int", of |-> ""]
TFloat == [k |-> "float", of |-> ""]
TString == [k |-> "string", of |-> ""]
TStruct(name) == [k |-> "struct", of |-> name]
TSlice(name) == [k |-> "slice", of |-> name]

\* The JSON keys of each struct type (matched case-insensitively by
\* encoding/json; written here in the service's lower case) and their types.
Fields(name) ==
    CASE name = "weatherLine" ->
            [id |-> TInt, main |-> TString, description |-> TString, icon |-> TString]
      [] name = "Coord" -> [lat |-> TFloat, lon |-> TFloat]
      [] name = "Sys" ->
            [type |-> TInt, id |-> TInt, country |-> TString,
             sunrise |-> TInt, sunset |-> TInt]
      [] name = "Main" ->
            [temp |-> TFloat, humidity |-> TInt, temp_min |-> TFloat,
             temp_max |-> TFloat, pressure |-> TFloat, sea_level |-> TFloat,
             grnd_level |-> TFloat]
      [] name = "Wind" -> [speed |-> TFloat, deg |-> TFloat, gust |-> TFloat]
      [] name = "Clouds" -> [all |-> TInt]
      [] name = "Weather" ->
            [coord |-> TStruct("Coord"), sys |-> TStruct("Sys"),
             weather |-> TSlice("weatherLine"), base |-> TString,
             main |-> TStruct("Main"), wind |-> TStruct("Wind"),
             clouds |-> TStruct("Clouds"), dt |-> TInt, id |-> TInt,
             name |-> TString, cod |-> TInt]
      [] name = "weatherSet" -> [cnt |-> TInt, list |-> TSlice("Weather")]
      [] name = "City" ->
            [id |-> TInt, name |-> TString, coord |-> TStruct("Coord"),
             country |-> TString]
      [] name = "Forecast" ->
            [cod |-> TString, city |-> TStruct("City"), cnt |-> TInt,
             list |-> TSlice("Weather")]

\* Whether the well-formed JSON value at position i of t decodes into Go type
\* ty without an UnmarshalTypeError.  null decodes into anything (a no-op);
\* keys the struct does not name are skipped.
RECURSIVE DecodesInto(_, _, _)
RECURSIVE MembersOK(_, _, _)
RECURSIVE ElemsOK(_, _, _)
DecodesInto(t, i, ty) ==
    IF t[i] = Lit("null") THEN TRUE
    ELSE IF ty.k = "int" THEN t[i].k = "num" /\ t[i].s = ""
    ELSE IF ty.k = "float" THEN t[i].k = "num"
    ELSE IF ty.k = "string" THEN t[i].k = "str"
    ELSE IF ty.k = "struct" THEN t[i] = P("{") /\ MembersOK(t, SkipWs(t, i + 1), ty.of)
    ELSE t[i] = P("[") /\ ElemsOK(t, SkipWs(t, i + 1), ty.of)

MembersOK(t, i, name) ==
    IF t[i] = P("}") THEN TRUE
    ELSE LET v == SkipWs(t, SkipWs(t, i + 1) + 1)
             n == SkipWs(t, EndOfValue(t, v))
             here == IF t[i].s \in DOMAIN Fields(name)
                     THEN DecodesInto(t, v, Fields(name)[t[i].s])
                     ELSE TRUE
         IN  here /\ (IF t[n] = P(",") THEN MembersOK(t, SkipWs(t, n + 1), name) ELSE TRUE)

ElemsOK(t, i, name) ==
    IF t[i] = P("]") THEN TRUE
    ELSE LET n == SkipWs(t, EndOfValue(t, i))
         IN  /\ DecodesInto(t, i, TStruct(name))
             /\ (IF t[n] = P(",") THEN ElemsOK(t, SkipWs(t, n + 1), name) ELSE TRUE)

\* The struct type each helper decodes into.
Target(helper) ==
    CASE helper = "weather" -> "Weather"
      [] helper = "weatherSet" -> "weatherSet"
      [] helper = "forecast" -> "Forecast"

\* A decoder that rejects an object with a key its target does not name.
UnmarshalFails_DisallowUnknown(t, name) ==
    \/ ~ValidJSON(t)
    \/ ~DecodesInto(t, SkipWs(t, 1), TStruct(name))
    \/ \E i \in 1..Len(t) :
          /\ t[i].k = "str"
          /\ IsTok(t, SkipWs(t, i + 1), P(":"))
          /\ t[i].s \notin DOMAIN Fields(name)

\* err != nil after json.Unmarshal(data, &v), v of struct type `name`.
UnmarshalFails(t, name) ==
    \/ ~ValidJSON(t)
    \/ ~DecodesInto(t, SkipWs(t, 1), TStruct(name))

(***************************************************************************)
(* The Go values json.Unmarshal leaves in its target.  An int is its       *)
(* number, a float64 the number literal it was read from, a string its     *)
(* text, a struct a record over the JSON keys of its fields, a slice a     *)
(* sequence (nil and empty are both <<>>).                                 *)
(***************************************************************************)
\* The zero value of Go type ty.
RECURSIVE Zero(_)
Zero(ty) ==
    CASE ty.k = "int" -> 0
      [] ty.k = "float" -> [frac |-> FALSE, n |-> 0]
      [] ty.k = "string" -> ""
      [] ty.k = "struct" -> [f \in DOMAIN Fields(ty.of) |-> Zero(Fields(ty.of)[f])]
      [] ty.k = "slice" -> <<>>

\* The value of a variable of type ty that held old, after the well-formed
\* JSON value at position i of t is decoded into it.  null empties a slice
\* and leaves anything else as it was; a value of the wrong JSON type is
\* skipped (the UnmarshalTypeError is remembered) and decoding goes on with
\* the next key, so what was decoded before stays in the target.  No body
\* names a slice key twice, so every slice is nil when its decoding starts.
RECURSIVE DecodeValue(_, _, _, _)
RECURSIVE DecodeMembers(_, _, _, _)
RECURSIVE DecodeElems(_, _, _, _)
DecodeValue(t, i, ty, old) ==
    IF t[i] = Lit("null") THEN (IF ty.k = "slice" THEN <<>> ELSE old)
    ELSE IF ty.k = "int" THEN (IF t[i].k = "num" /\ t[i].s = "" THEN t[i].n ELSE old)
    ELSE IF ty.k = "float"
         THEN (IF t[i].k = "num" THEN [frac |-> t[i].s = "frac", n |-> t[i].n] ELSE old)
    ELSE IF ty.k = "string" THEN (IF t[i].k = "str" THEN t[i].s ELSE old)
    ELSE IF ty.k = "struct"
         THEN (IF t[i] = P("{") THEN DecodeMembers(t, SkipWs(t, i + 1), ty.of, old) ELSE old)
    ELSE IF t[i] = P("[") THEN DecodeElems(t, SkipWs(t, i + 1), ty.of, <<>>) ELSE old

DecodeMembers(t, i, name, acc) ==
    IF t[i] = P("}") THEN acc
    ELSE LET v == SkipWs(t, SkipWs(t, i + 1) + 1)
             n == SkipWs(t, EndOfValue(t, v))
             key == t[i].s
             now == IF key \in DOMAIN Fields(name)
                    THEN [acc EXCEPT ![key] = DecodeValue(t, v, Fields(name)[key], acc[key])]
                    ELSE acc
         IN  IF t[n] = P(",") THEN DecodeMembers(t, SkipWs(t, n + 1), name, now) ELSE now

DecodeElems(t, i, name, acc) ==
    IF t[i] = P("]") THEN acc
    ELSE LET n == SkipWs(t, EndOfValue(t, i))
             now == Append(acc, DecodeValue(t, i, TStruct(name), Zero(TStruct(name))))
         IN  IF t[n] = P(",") THEN DecodeElems(t, SkipWs(t, n + 1), name, now) ELSE now

\* The target after json.Unmarshal(data, &v): untouched when the input is not
\* one well-formed JSON value, since the syntax is checked before anything
\* is stored.
Unmarshal(t, name, old) ==
    IF ValidJSON(t) THEN DecodeValue(t, SkipWs(t, 1), TStruct(name), old) ELSE old

\* The marker looked for only as the first member of the payload.
FetchFailed_MarkerAtStart(dataErr, data) ==
    dataErr \/ OccursAt(data, Marker, SkipWs(data, SkipWs(data, 1) + 1))

\* The helpers' test without the search for the marker.
FetchFailed_NoMarkerTest(dataErr, data) == dataErr

\* The test of the helpers after data() returns:
\* err != nil || strings.Contains(string(data), `"cod":"404"`)
FetchFailed(dataErr, data) == dataErr \/ Contains(data, Marker)

\* The error a helper returns when data() fails or the body holds the marker.
FetchErr(helper) == IF helper = "forecast" THEN ErrFetchForecast ELSE ErrFetchWeather

\* One message for every failure, as if decoding reused the fetching error.
DecodeErr_SameAsFetch(helper) == FetchErr(helper)

\* A decode failure that is dropped: the helper returns a nil error.
DecodeErr_Dropped(helper) == Nil

\* The error a helper returns when json.Unmarshal fails.
DecodeErr(helper) == IF helper = "forecast" THEN ErrDecodeForecast ELSE ErrDecodeWeather

(***************************************************************************)
(* Inputs: the arguments callers pass and the responses the network gives. *)
(***************************************************************************)
MaxDays == 4

F(m, e) == [m |-> m, e |-> e]

Callers == {"c1", "c2"}

Keys == {<<>>, <<"k","9">>}
Names == {<<"L","i","s","b","o","n">>, <<>>, <<"x","&","A","P","P","I","D","=","k","9">>,
          <<"&","u","n","i","t","s","=">>}
UnitsTokens == {<<"m","e","t","r","i","c">>, <<>>, <<"&","u","n","i","t","s","=">>}
CityIds == {2267057, 0, -7}
IdLists == {<<>>, <<2267057>>, <<2267057, 2735943, 2268339>>, <<-7, 0>>}
Days == {-MaxDays, -1, 0, 1, MaxDays}
\* 40.7109375, -9.12890625 / 12, 0 / -0.00390625, 0.125 / 0.375, -179.99609375
Points == {<<F(10422, 8), F(-2337, 8)>>, <<F(12, 0), F(0, 0)>>,
           <<F(-1, 8), F(1, 3)>>, <<F(3, 3), F(-46079, 8)>>}
Zooms == {10, -1}
Radii == {F(10, 0), F(5, 1)}
Statuses == {200, 404}

BodyMinimal ==
    <<P("{"), Str("id"), P(":"), Num(2267057), P(","),
      Str("name"), P(":"), Str("Lisbon"), P("}")>>
BodyWeather ==
    <<P("{"), Str("coord"), P(":"), P("{"), Str("lon"), P(":"), Frac(-9), P(","),
      Str("lat"), P(":"), Frac(38), P("}"), P(","),
      Str("weather"), P(":"), P("["), P("{"), Str("id"), P(":"), Num(800), P(","),
      Str("main"), P(":"), Str("Clear"), P("}"), P("]"), P(","),
      Str("rain"), P(":"), P("{"), Str("3h"), P(":"), Num(0), P("}"), P(","),
      Str("id"), P(":"), Num(2267057), P(","), Str("name"), P(":"), Str("Lisbon"),
      P(","), Str("cod"), P(":"), Num(200), P("}")>>
BodySet ==
    <<P("{"), Str("cnt"), P(":"), Num(3), P(","), Str("list"), P(":"), P("["),
      P("{"), Str("id"), P(":"), Num(2267057), P("}"), P(","), Ws,
      P("{"), Str("id"), P(":"), Num(2735943), P("}"), P("]"), P("}")>>
BodyForecast ==
    <<P("{"), Str("cod"), P(":"), Str("200"), P(","),
      Str("city"), P(":"), P("{"), Str("id"), P(":"), Num(2267057), P("}"), P(","),
      Str("cnt"), P(":"), Num(1), P(","),
      Str("list"), P(":"), P("["), P("{"), Str("dt"), P(":"), Num(1400000000), P("}"),
      P("]"), P("}")>>
BodyNotFound ==
    <<P("{"), Str("message"), P(":"), Str("Error: Not found city"), P(","),
      Str("cod"), P(":"), Str("404"), P("}")>>
BodyNotFoundNumber ==
    <<P("{"), Str("cod"), P(":"), Num(404), P(","),
      Str("message"), P(":"), Str("Error: Not found city"), P("}")>>
BodyNotFoundSpaced ==
    <<P("{"), Str("message"), P(":"), Ws, Str("x"), P(","),
      Str("cod"), P(":"), Ws, Str("404"), P("}")>>
BodyTruncated == <<P("{"), Str("id"), P(":")>>
BodyEmpty == <<>>
BodyHtml == <<Junk>>
BodyTrailing == <<P("{"), P("}"), P("}")>>
BodyWrongType == <<P("{"), Str("id"), P(":"), Str("abc"), P(","),
                   Str("cnt"), P(":"), Lit("true"), P(","),
                   Str("cod"), P(":"), P("["), P("]"), P("}")>>
BodyMarkerInTruncated == <<P("{"), Str("cod"), P(":"), Str("404")>>
BodyMarkerNested ==
    <<P("{"), Str("id"), P(":"), Num(2267057), P(","),
      Str("name"), P(":"), Str("Lisbon"), P(","),
      Str("last"), P(":"), P("{"), Str("cod"), P(":"), Str("404"), P("}"), P(","),
      Str("list"), P(":"), P("["), P("]"), P("}")>>
BodyMinimalExtra ==
    <<P("{"), Str("id"), P(":"), Num(2267057), P(","),
      Str("visibility"), P(":"), Num(10000), P(","),
      Str("rain"), P(":"), P("{"), Str("3h"), P(":"), Frac(0), P("}"), P(","),
      Str("name"), P(":"), Str("Lisbon"), P("}")>>
BodyPartial ==
    <<P("{"), Str("id"), P(":"), Num(2267057), P(","),
      Str("cnt"), P(":"), Num(3), P(","),
      Str("list"), P(":"), P("["), P("{"), Str("id"), P(":"), Num(2735943), P(","),
      Str("name"), P(":"), Num(404), P("}"), P("]"), P(","),
      Str("name"), P(":"), Num(404), P("}")>>

Bodies == {BodyMinimal, BodyWeather, BodySet, BodyForecast, BodyNotFound,
           BodyNotFoundNumber, BodyNotFoundSpaced, BodyTruncated, BodyEmpty,
           BodyHtml, BodyTrailing, BodyWrongType, BodyMarkerInTruncated,
           BodyMinimalExtra, BodyPartial, BodyMarkerNested}

(***************************************************************************)
(* State.  client is the Client NewClient returned (NoClient before);      *)
(* calls[c] is the position and the locals of caller c's call in flight;   *)
(* crashed says that a panic has aborted the process.                      *)
(***************************************************************************)
NoClient == [made |-> FALSE, key |-> <<>>, baseURL |-> <<>>]

NoArgs == [name |-> <<>>, units |-> <<>>, id |-> 0, ids |-> <<>>,
           lat |-> F(0, 0), lon |-> F(0, 0), lat2 |-> F(0, 0), lon2 |-> F(0, 0),
           zoom |-> 0, radius |-> F(0, 0), days |-> 0]

\* No call is in flight: there is no result variable.
NoValue == [none |-> TRUE]

Idle == [pc |-> "idle", method |-> "", args |-> NoArgs, helper |-> "",
         built |-> <<>>, url |-> <<>>, gets |-> 0, net |-> "none", status |-> 0,
         body |-> <<>>, open |-> 0, closes |-> 0, data |-> <<>>,
         dataErr |-> FALSE, decoded |-> FALSE, v |-> NoValue, err |-> Nil,
         str |-> <<>>]

Init ==
    /\ client = NoClient
    /\ calls = [c \in Callers |-> Idle]
    /\ crashed = FALSE

\* NewClient putting a default key in the place of an empty one.
NewClient_DefaultKey(key) ==
    /\ ~client.made
    /\ client' = [made |-> TRUE,
                  key |-> IF key = <<>> THEN <<"d","e","m","o">> ELSE key,
                  baseURL |-> BaseURLText]
    /\ UNCHANGED <<calls, crashed>>

\* func NewClient(key string) *Client
NewClient(key) ==
    /\ ~client.made
    /\ client' = [made |-> TRUE, key |-> key, baseURL |-> BaseURLText]
    /\ UNCHANGED <<calls, crashed>>

Ready(c) == client.made /\ ~crashed /\ calls[c].pc = "idle"

\* The helper's url as one variable shared by the calls in flight, not a
\* parameter of each call.
Enter_SharedURL(c, method, helper, args, built) ==
    calls' = [d \in Callers |->
                IF d = c
                THEN [Idle EXCEPT !.pc = "helper", !.method = method, !.helper = helper,
                                  !.args = args, !.built = built, !.url = built,
                                  !.v = Zero(TStruct(Target(helper)))]
                ELSE IF calls[d].pc \in {"helper", "get"}
                     THEN [calls[d] EXCEPT !.url = built]
                     ELSE calls[d]]

\* A public method has assembled `built` and calls its helper with it; the
\* helper's named result (w, ws or f) starts as the zero value of its type.
Enter(c, method, helper, args, built) ==
    calls' = [calls EXCEPT ![c] =
                [Idle EXCEPT !.pc = "helper", !.method = method, !.helper = helper,
                             !.args = args, !.built = built, !.url = built,
                             !.v = Zero(TStruct(Target(helper)))]]

WeatherByName(c, name, units) ==
    /\ Ready(c)
    /\ Enter(c, "WeatherByName", "weather",
             [NoArgs EXCEPT !.name = name, !.units = units],
             WeatherByNameURL(client.baseURL, name, units))
    /\ UNCHANGED <<client, crashed>>

WeatherById(c, id, units) ==
    /\ Ready(c)
    /\ Enter(c, "WeatherById", "weather",
             [NoArgs EXCEPT !.id = id, !.units = units],
             WeatherByIdURL(client.baseURL, id, units))
    /\ UNCHANGED <<client, crashed>>

WeatherByCoord(c, lat, lon, units) ==
    /\ Ready(c)
    /\ Enter(c, "WeatherByCoord", "weather",
             [NoArgs EXCEPT !.lat = lat, !.lon = lon, !.units = units],
             WeatherByCoordURL(client.baseURL, lat, lon, units))
    /\ UNCHANGED <<client, crashed>>

WeatherByZone(c, lat1, lon1, lat2, lon2, zoom, units) ==
    /\ Ready(c)
    /\ Enter(c, "WeatherByZone", "weatherSet",
             [NoArgs EXCEPT !.lat = lat1, !.lon = lon1, !.lat2 = lat2, !.lon2 = lon2,
                            !.zoom = zoom, !.units = units],
             WeatherByZoneURL(client.baseURL, lat1, lon1, lat2, lon2, zoom, units))
    /\ UNCHANGED <<client, crashed>>

WeatherByRadius(c, lat, lon, radius, units) ==
    /\ Ready(c)
    /\ Enter(c, "WeatherByRadius", "weatherSet",
             [NoArgs EXCEPT !.lat = lat, !.lon = lon, !.radius = radius,
                            !.units = units],
             WeatherByRadiusURL(client.baseURL, lat, lon, radius, units))
    /\ UNCHANGED <<client, crashed>>

\* The slice expression ids[:len(ids)-1] is evaluated before weatherSet is
\* called: when it panics the process aborts and nothing is returned.
WeatherByIds(c, id, units) ==
    /\ Ready(c)
    /\ IF IdsSlicePanics(id)
       THEN /\ crashed' = TRUE
            /\ calls' = [calls EXCEPT ![c] =
                            [Idle EXCEPT !.pc = "panic", !.method = "WeatherByIds",
                                         !.args = [NoArgs EXCEPT !.ids = id,
                                                                 !.units = units]]]
       ELSE /\ Enter(c, "WeatherByIds", "weatherSet",
                     [NoArgs EXCEPT !.ids = id, !.units = units],
                     WeatherByIdsURL(client.baseURL, id, units))
            /\ UNCHANGED crashed
    /\ UNCHANGED client

ForecastByName(c, name, days, units) ==
    /\ Ready(c)
    /\ Enter(c, "ForecastByName", "forecast",
             [NoArgs EXCEPT !.name = name, !.days = days, !.units = units],
             ForecastByNameURL(client.baseURL, name, days, units))
    /\ UNCHANGED <<client, crashed>>

ForecastById(c, id, days, units) ==
    /\ Ready(c)
    /\ Enter(c, "ForecastById", "forecast",
             [NoArgs EXCEPT !.id = id, !.days = days, !.units = units],
             ForecastByIdURL(client.baseURL, id, days, units))
    /\ UNCHANGED <<client, crashed>>

ForecastByCoord(c, lat, lon, days, units) ==
    /\ Ready(c)
    /\ Enter(c, "ForecastByCoord", "forecast",
             [NoArgs EXCEPT !.lat = lat, !.lon = lon, !.days = days, !.units = units],
             ForecastByCoordURL(client.baseURL, lat, lon, days, units))
    /\ UNCHANGED <<client, crashed>>

(***************************************************************************)
(* The helpers weather, weatherSet and forecast, and data().               *)
(***************************************************************************)
\* if c.key != "" { url += "&APPID=" + c.key }
AppendKey(c) ==
    /\ ~crashed
    /\ calls[c].pc = "helper"
    /\ calls' = [calls EXCEPT ![c].url = WithKey(client.key, calls[c].url),
                              ![c].pc = "get"]
    /\ UNCHANGED <<client, crashed>>

\* res, err := http.Get(url): a transport error, after which data() returns
\* its error, or a response of any status whose body is open for reading.
HttpGet(c, fails, status, body) ==
    /\ ~crashed
    /\ calls[c].pc = "get"
    /\ IF fails
       THEN calls' = [calls EXCEPT ![c].gets = @ + 1, ![c].net = "geterr",
                                   ![c].dataErr = TRUE, ![c].pc = "check"]
       ELSE calls' = [calls EXCEPT ![c].gets = @ + 1, ![c].net = "response",
                                   ![c].status = status, ![c].body = body,
                                   ![c].open = @ + 1, ![c].pc = "read"]
    /\ UNCHANGED <<client, crashed>>

\* data() returning on a read error before it closes the body.
CloseBody_NotOnReadError(call) ==
    IF call.dataErr THEN call ELSE [call EXCEPT !.open = @ - 1, !.closes = @ + 1]

\* The body left open until after the helper has looked at the data.
CloseBody_Deferred(call) == call

\* res.Body.Close(), the statement after ReadAll, before err is looked at.
CloseBody(call) == [call EXCEPT !.open = @ - 1, !.closes = @ + 1]

\* data() reporting a response with a status outside 200..299 as an error.
ReadAll_StatusChecked(c, fails) ==
    /\ ~crashed
    /\ calls[c].pc = "read"
    /\ calls' = [calls EXCEPT ![c] =
                    CloseBody([@ EXCEPT !.net = IF fails THEN "readerr" ELSE "ok",
                                        !.data = IF fails THEN <<>> ELSE calls[c].body,
                                        !.dataErr = fails \/ calls[c].status \notin 200..299,
                                        !.pc = "check"])]
    /\ UNCHANGED <<client, crashed>>

\* data, err = ioutil.ReadAll(res.Body); res.Body.Close(); data() returns.
\* On a read error the bytes read so far are returned with the error and the
\* helpers never look at them.
ReadAll(c, fails) ==
    /\ ~crashed
    /\ calls[c].pc = "read"
    /\ calls' = [calls EXCEPT ![c] =
                    CloseBody([@ EXCEPT !.net = IF fails THEN "readerr" ELSE "ok",
                                        !.data = IF fails THEN <<>> ELSE calls[c].body,
                                        !.dataErr = fails,
                                        !.pc = "check"])]
    /\ UNCHANGED <<client, crashed>>

\* if err != nil || strings.Contains(string(data), `"cod":"404"`) { ...; return }
Check(c) ==
    /\ ~crashed
    /\ calls[c].pc = "check"
    /\ IF FetchFailed(calls[c].dataErr, calls[c].data)
       THEN calls' = [calls EXCEPT ![c].err = FetchErr(calls[c].helper),
                                   ![c].pc = "done"]
       ELSE calls' = [calls EXCEPT ![c].pc = "decode"]
    /\ UNCHANGED <<client, crashed>>

\* err = json.Unmarshal(data, &v); if err != nil { ...; return }; return
Decode(c) ==
    /\ ~crashed
    /\ calls[c].pc = "decode"
    /\ calls' = [calls EXCEPT ![c].decoded = TRUE,
                              ![c].v = Unmarshal(calls[c].data, Target(calls[c].helper), @),
                              ![c].err = IF UnmarshalFails(calls[c].data,
                                                           Target(calls[c].helper))
                                         THEN DecodeErr(calls[c].helper)
                                         ELSE Nil,
                              ![c].pc = "done"]
    /\ UNCHANGED <<client, crashed>>

\* The list handed over only when its length is the payload's count.
Result_CountChecked(call) ==
    IF call.helper = "weatherSet"
    THEN (IF Len(call.v.list) = call.v.cnt THEN call.v.list ELSE <<>>)
    ELSE call.v

\* What the public method hands to its caller next to err: the helper's
\* record, or for the collection methods its list (w = ws.Weather).
Result(call) == IF call.helper = "weatherSet" THEN call.v.list ELSE call.v

(***************************************************************************)
(* func (w *Weather) String() string, of the version of the package that   *)
(* has it (src/unnamed/part_002, lines 413-461).  The text returned is     *)
(* modelled as the sequence of the 23 values Sprintf formats, in order.    *)
(***************************************************************************)
\* String reading the entry after entry 0.
StringPanics_SecondEntry(w) == Len(w.weather) < 2

\* w.Weather[0] is out of range: the index expression panics.
StringPanics(w) == Len(w.weather) < 1

\* The arguments of Sprintf, evaluated in order.
StringValues(w) ==
    <<w.dt, w.id, w.name, w.sys.country, w.sys.sunrise, w.sys.sunset,
      w.coord.lat, w.coord.lon,
      w.weather[1].id, w.weather[1].main, w.weather[1].description, w.weather[1].icon,
      w.main.temp, w.main.humidity, w.main.temp_min, w.main.temp_max,
      w.main.pressure, w.main.sea_level, w.main.grnd_level,
      w.wind.speed, w.wind.deg, w.wind.gust, w.clouds.all>>

\* The caller of a WeatherBy* accessor that returned a Weather with a nil
\* error calls its String method.  The panic of the index expression aborts
\* the process; otherwise the caller has the text.
String(c) ==
    /\ ~crashed
    /\ calls[c].pc = "done"
    /\ calls[c].helper = "weather"
    /\ calls[c].err = Nil
    /\ IF StringPanics(calls[c].v)
       THEN /\ crashed' = TRUE
            /\ calls' = [calls EXCEPT ![c].pc = "abort"]
       ELSE /\ calls' = [calls EXCEPT ![c].str = StringValues(calls[c].v),
                                      ![c].pc = "printed"]
            /\ UNCHANGED crashed
    /\ UNCHANGED client

\* The caller has its result and is free to call again.
Return(c) ==
    /\ ~crashed
    /\ calls[c].pc \in {"done", "printed"}
    /\ calls' = [calls EXCEPT ![c] = Idle]
    /\ UNCHANGED <<client, crashed>>

(***************************************************************************)
(* Specifications.  A step of caller c draws its arguments and the         *)
(* network's answers from the sets of I.                                   *)
(***************************************************************************)
Step(c, I) ==
    \/ \E name \in I.names, units \in I.units : WeatherByName(c, name, units)
    \/ \E id \in I.ids, units \in I.units : WeatherById(c, id, units)
    \/ \E p \in I.points, units \in I.units : WeatherByCoord(c, p[1], p[2], units)
    \/ \E p \in I.points, q \in I.points, zoom \in I.zooms, units \in I.units :
          WeatherByZone(c, p[1], p[2], q[1], q[2], zoom, units)
    \/ \E p \in I.points, radius \in I.radii, units \in I.units :
          WeatherByRadius(c, p[1], p[2], radius, units)
    \/ \E id \in I.idLists, units \in I.units : WeatherByIds(c, id, units)
    \/ \E name \in I.names, days \in I.days, units \in I.units :
          ForecastByName(c, name, days, units)
    \/ \E id \in I.ids, days \in I.days, units \in I.units :
          ForecastById(c, id, days, units)
    \/ \E p \in I.points, days \in I.days, units \in I.units :
          ForecastByCoord(c, p[1], p[2], days, units)
    \/ AppendKey(c)
    \/ \E status \in I.statuses, body \in I.bodies : HttpGet(c, FALSE, status, body)
    \/ HttpGet(c, TRUE, 0, <<>>)
    \/ \E fails \in BOOLEAN : ReadAll(c, fails)
    \/ Check(c)
    \/ Decode(c)
    \/ String(c)
    \/ Return(c)

AllInputs ==
    [names |-> Names, units |-> UnitsTokens, ids |-> CityIds, idLists |-> IdLists,
     days |-> Days, points |-> Points, zooms |-> Zooms, radii |-> Radii,
     statuses |-> Statuses, bodies |-> Bodies]

\* One caller, every input.
Next ==
    \/ \E key \in Keys : NewClient(key)
    \/ Step("c1", AllInputs)

Spec == Init /\ [][Next]_vars

\* Two callers sharing the Client, their steps interleaved, one argument
\* tuple per method and one body per outcome.
FewInputs ==
    [names |-> {<<"L","i","s","b","o","n">>}, units |-> {<<"m","e","t","r","i","c">>},
     ids |-> {2267057}, idLists |-> {<<2267057, 2735943>>}, days |-> {MaxDays},
     points |-> {<<F(10422, 8), F(-2337, 8)>>}, zooms |-> {10}, radii |-> {F(10, 0)},
     statuses |-> {200}, bodies |-> {BodyMinimal, BodyNotFound, BodyTruncated}]

NextConc ==
    \/ \E key \in Keys : NewClient(key)
    \/ \E c \in Callers : Step(c, FewInputs)

SpecConc == Init /\ [][NextConc]_vars

(***************************************************************************)
(* Reading a URL back, for the properties: suffixes, occurrences,          *)
(* parameter values, comma-separated items, decimal numbers.               *)
(***************************************************************************)
\* The number of (possibly overlapping) occurrences of pat in s.
Count(s, pat) == Cardinality({i \in 1..(Len(s) - Len(pat) + 1) : OccursAt(s, pat, i)})

HasSuffix(s, suf) == Len(suf) <= Len(s) /\ OccursAt(s, suf, Len(s) - Len(suf) + 1)

HasPrefix(s, pre) == OccursAt(s, pre, 1)

\* The index of the first occurrence of pat in s, 0 when there is none.
Index(s, pat) ==
    IF Contains(s, pat)
    THEN CHOOSE i \in 1..Len(s) :
            /\ OccursAt(s, pat, i)
            /\ \A j \in 1..(i - 1) : ~OccursAt(s, pat, j)
    ELSE 0

\* s[from:] in one-based positions: the characters from position `from` on.
From(s, from) == SubSeq(s, from, Len(s))

IsDigit(ch) == ch \in {"0","1","2","3","4","5","6","7","8","9"}

DigitValue(ch) == CHOOSE d \in 0..9 : DigitChars[d + 1] = ch

RECURSIVE ReadNat(_)
ReadNat(s) ==
    IF Len(s) = 0 THEN 0
    ELSE 10 * ReadNat(SubSeq(s, 1, Len(s) - 1)) + DigitValue(s[Len(s)])

IsDecimalInt(s) ==
    LET b == IF Len(s) > 0 /\ s[1] = "-" THEN Tail(s) ELSE s
    IN  Len(b) > 0 /\ \A i \in 1..Len(b) : IsDigit(b[i])

ReadInt(s) == IF s[1] = "-" THEN -ReadNat(Tail(s)) ELSE ReadNat(s)

RECURSIVE SplitComma(_)
SplitComma(s) ==
    LET i == Index(s, <<",">>)
    IN  IF i = 0 THEN <<s>>
        ELSE <<SubSeq(s, 1, i - 1)>> \o SplitComma(From(s, i + 1))

\* The text after the first occurrence of `key` in url, up to the next "&".
ParamValue(url, key) ==
    LET rest == From(url, Index(url, key) + Len(key))
        j == Index(rest, <<"&">>)
    IN  IF j = 0 THEN rest ELSE SubSeq(rest, 1, j - 1)

\* The longest run of sign, digit and point characters of s from position i.
NumberAt(s, i) ==
    LET isNum(k) == k <= Len(s) /\ (IsDigit(s[k]) \/ s[k] \in {"-", "."})
        n == CHOOSE n \in 0..(Len(s) - i + 1) :
                /\ \A k \in i..(i + n - 1) : isNum(k)
                /\ ~isNum(i + n)
    IN  SubSeq(s, i, i + n - 1)

\* tok is x in fixed-point notation with exactly two digits after the point:
\* an optional sign, digits, a point, two digits, and its value is within
\* half a hundredth of x.
IsTwoDecimalsOf(tok, x) ==
    LET neg == Len(tok) > 0 /\ tok[1] = "-"
        b == IF neg THEN Tail(tok) ELSE tok
        n == Len(b)
    IN  /\ n >= 4
        /\ b[n - 2] = "."
        /\ \A i \in (1..n) \ {n - 2} : IsDigit(b[i])
        /\ neg <=> (x.m < 0)
        /\ LET h == ReadNat(SubSeq(b, 1, n - 3) \o SubSeq(b, n - 1, n))
           IN  2 * Abs(h * (2 ^ x.e) - 100 * Abs(x.m)) <= 2 ^ x.e

(***************************************************************************)
(* Properties.  The texts the properties expect are written out here, not  *)
(* taken from the definitions above.                                       *)
(***************************************************************************)
TxtBase == <<"h","t","t","p",":","/","/","a","p","i",".","o","p","e","n","w","e","a","t","h","e","r","m","a","p",".","o","r","g","/","d","a","t","a","/","2",".","5","/">>
TxtUnits == <<"&","u","n","i","t","s","=">>
TxtAppid == <<"&","A","P","P","I","D","=">>
TxtWeatherQ == <<"w","e","a","t","h","e","r","?","q","=">>

\* The GET of caller c's call has been issued: calls[c].url is the URL requested.
Requested(c) == calls[c].gets = 1

\* C1: WeatherByName requests exactly base + "weather?q=" + name + "&units=" +
\* units, followed by "&APPID=" + key when the key is non-empty and by nothing
\* when it is empty.
C1_WeatherByNameExactURL ==
    \A c \in Callers :
        (Requested(c) /\ calls[c].method = "WeatherByName") =>
            calls[c].url =
                TxtBase \o TxtWeatherQ \o calls[c].args.name
                        \o TxtUnits \o calls[c].args.units
                        \o (IF Len(client.key) > 0 THEN TxtAppid \o client.key ELSE <<>>)

C1_Witness ==
    \E c \in Callers :
        /\ Requested(c)
        /\ calls[c].method = "WeatherByName"
        /\ Len(calls[c].args.name) > 0
        /\ Len(calls[c].args.units) > 0
        /\ Len(client.key) > 0

MarkerBodies == {BodyNotFound, BodyMarkerInTruncated, BodyMarkerNested}
BadSyntaxBodies == {BodyTruncated, BodyEmpty, BodyHtml, BodyTrailing}
WrongShapeBodies(helper) ==
    {BodyWrongType, BodyPartial}
    \cup (IF helper = "weather" THEN {BodyForecast, BodyNotFoundSpaced} ELSE {})
    \cup (IF helper = "forecast" THEN {BodyWeather, BodyNotFoundNumber} ELSE {})

Done(c) == calls[c].pc = "done"

Kind(c) ==
    IF calls[c].net \in {"geterr", "readerr"} THEN "fetch"
    ELSE IF calls[c].body \in MarkerBodies THEN "notfound"
    ELSE IF calls[c].body \in BadSyntaxBodies \cup WrongShapeBodies(calls[c].helper)
         THEN "decode"
    ELSE "success"

Failed(c) == Done(c) /\ Kind(c) # "success"

ForecastMethods == {"ForecastByName", "ForecastById", "ForecastByCoord"}

TxtFetchError(method) ==
    IF method \in ForecastMethods
    THEN "owm: error while fetching forecast data"
    ELSE "owm: error while fetching weather data"

TxtDecodeError(method) ==
    IF method \in ForecastMethods
    THEN "owm: error while decoding forecast data"
    ELSE "owm: error while decoding weather data"

C4_MarkerSkipsDecode ==
    \A c \in Callers :
        (calls[c].net = "ok" /\ calls[c].body \in MarkerBodies) =>
            /\ calls[c].pc \in {"check", "done"}
            /\ ~calls[c].decoded
            /\ Done(c) => calls[c].err = TxtFetchError(calls[c].method)

C4_Witness ==
    \E c \in Callers :
        /\ Done(c)
        /\ calls[c].net = "ok"
        /\ calls[c].body = BodyNotFound
        /\ calls[c].method = "WeatherByRadius"

\* C5: when the fetch succeeds and the body holds no marker and is not
\* well-formed JSON, the accessor returns the decoding error, which is none of
\* the errors returned for a fetch failure or for not-found.
C5_BadSyntaxIsDecodeError ==
    \A c \in Callers :
        (Done(c) /\ calls[c].net = "ok" /\ calls[c].body \in BadSyntaxBodies) =>
            /\ calls[c].decoded
            /\ calls[c].err = TxtDecodeError(calls[c].method)
            /\ calls[c].err \notin {FetchErr(h) : h \in {"weather", "weatherSet", "forecast"}}

C5_Witness ==
    \E c \in Callers :
        /\ Done(c)
        /\ calls[c].net = "ok"
        /\ calls[c].body = BodyTrailing
        /\ calls[c].method = "ForecastById"

TxtForecastPath == <<"f","o","r","e","c","a","s","t">>
TxtDailyPath == <<"f","o","r","e","c","a","s","t","/","d","a","i","l","y">>
TxtCnt == <<"&","c","n","t","=">>
TxtGroupId == <<"g","r","o","u","p","?","i","d","=">>

\* The primary parameters of a forecast accessor's URL.
ForecastPrimary(c) ==
    CASE calls[c].method = "ForecastByName" -> <<"q","=">> \o calls[c].args.name
      [] calls[c].method = "ForecastById" -> <<"i","d","=">> \o Itoa(calls[c].args.id)
      [] calls[c].method = "ForecastByCoord" ->
            <<"l","a","t","=">> \o FormatFloat(calls[c].args.lat)
            \o <<"&","l","o","n","=">> \o FormatFloat(calls[c].args.lon)

\* The URL a forecast accessor is to assemble for its days argument.
ForecastExpected(c) ==
    TxtBase
    \o (IF calls[c].args.days > 0 THEN TxtDailyPath ELSE TxtForecastPath)
    \o <<"?">> \o ForecastPrimary(c)
    \o (IF calls[c].args.days > 0 THEN TxtCnt \o Itoa(calls[c].args.days) ELSE <<>>)
    \o TxtUnits \o calls[c].args.units

\* C6: ForecastByName requests "forecast" with no cnt parameter when days = 0
\* and "forecast/daily" with cnt=<days> when days > 0.
C6_ForecastByNamePath ==
    \A c \in Callers :
        (Requested(c) /\ calls[c].method = "ForecastByName" /\ calls[c].args.days >= 0) =>
            calls[c].built = ForecastExpected(c)

\* C7: ForecastById and ForecastByCoord request "forecast/daily" with the
\* primary parameters, cnt=<days> and units when days > 0, and "forecast" with
\* no cnt parameter when days = 0; and ForecastByName uses the same resource
\* path as they do for the same days.
C7_ForecastSamePath ==
    \A c \in Callers :
        (Requested(c) /\ calls[c].method \in ForecastMethods /\ calls[c].args.days >= 0) =>
            /\ calls[c].method # "ForecastByName" => calls[c].built = ForecastExpected(c)
            /\ HasPrefix(calls[c].built,
                         TxtBase \o (IF calls[c].args.days > 0
                                     THEN TxtDailyPath ELSE TxtForecastPath) \o <<"?">>)

\* The part of C7 that is about ForecastById and ForecastByCoord alone.
ForecastByIdByCoordPath ==
    \A c \in Callers :
        (Requested(c) /\ calls[c].method \in {"ForecastById", "ForecastByCoord"}
            /\ calls[c].args.days >= 0) =>
            calls[c].built = ForecastExpected(c)

\* C8: for a non-empty id list WeatherByIds requests "group" with an id
\* parameter that reads back, split at its commas, as the decimal ids in
\* input order: no item is empty, so no comma leads or trails the value.
C8_IdsCommaJoined ==
    \A c \in Callers :
        (Requested(c) /\ calls[c].method = "WeatherByIds" /\ Len(calls[c].args.ids) > 0) =>
            LET v == ParamValue(calls[c].built, TxtGroupId)
                items == SplitComma(v)
            IN  /\ calls[c].built = TxtBase \o TxtGroupId \o v
                                        \o TxtUnits \o calls[c].args.units
                /\ Len(items) = Len(calls[c].args.ids)
                /\ \A i \in 1..Len(items) :
                      /\ IsDecimalInt(items[i])
                      /\ ReadInt(items[i]) = calls[c].args.ids[i]
                /\ v[1] # "," /\ v[Len(v)] # ","

C8_Witness ==
    \E c \in Callers :
        /\ Requested(c)
        /\ calls[c].method = "WeatherByIds"
        /\ calls[c].args.ids = <<2267057, 2735943, 2268339>>

\* C9: no input makes a public method abort the process: no call panics.
C9_NoPanic == ~crashed /\ \A c \in Callers : calls[c].pc # "panic"

\* C10: every coordinate-based query writes each latitude and longitude (finite
\* float64 values) into the URL in fixed-point notation with exactly two
\* digits after the decimal point, rounded from the input.
C10_CoordsTwoDecimals ==
    \A c \in Callers :
        LET u == calls[c].url
            a == calls[c].args
            after(key) == Index(u, key) + Len(key)
        IN  /\ (Requested(c) /\ calls[c].method \in
                    {"WeatherByCoord", "WeatherByRadius", "ForecastByCoord"}) =>
                  /\ Contains(u, <<"l","a","t","=">>)
                  /\ Contains(u, <<"l","o","n","=">>)
                  /\ IsTwoDecimalsOf(NumberAt(u, after(<<"l","a","t","=">>)), a.lat)
                  /\ IsTwoDecimalsOf(NumberAt(u, after(<<"l","o","n","=">>)), a.lon)
            /\ (Requested(c) /\ calls[c].method = "WeatherByZone") =>
                  LET items == SplitComma(ParamValue(u, <<"b","b","o","x","=">>))
                  IN  /\ Len(items) = 5
                      /\ IsTwoDecimalsOf(items[1], a.lat)
                      /\ IsTwoDecimalsOf(items[2], a.lon)
                      /\ IsTwoDecimalsOf(items[3], a.lat2)
                      /\ IsTwoDecimalsOf(items[4], a.lon2)

C10_Witness ==
    \E c \in Callers :
        /\ Requested(c)
        /\ calls[c].method = "WeatherByZone"
        /\ calls[c].args.lat = F(10422, 8)
        /\ calls[c].args.lon2 = F(1, 3)

TxtFindLat == <<"f","i","n","d","?","l","a","t","=">>
TxtLon == <<"&","l","o","n","=">>
TxtBoxBbox == <<"b","o","x","/","c","i","t","y","?","b","b","o","x","=">>

\* C11: WeatherByRadius requests "find" with the query string
\* lat=<lat>&lon=<lon>&cnt=<radius>&units=<units>, where the value of lat is
\* exactly the two-decimal latitude and the value of lon exactly the
\* two-decimal longitude: no other character is inside either value.
C11_RadiusParams ==
    \A c \in Callers :
        (Requested(c) /\ calls[c].method = "WeatherByRadius") =>
            LET b == calls[c].built
                lat == ParamValue(b, <<"l","a","t","=">>)
                lon == ParamValue(b, <<"l","o","n","=">>)
                cnt == ParamValue(b, <<"c","n","t","=">>)
            IN  /\ b = TxtBase \o TxtFindLat \o lat \o TxtLon \o lon \o TxtCnt \o cnt
                          \o TxtUnits \o calls[c].args.units
                /\ IsTwoDecimalsOf(lat, calls[c].args.lat)
                /\ IsTwoDecimalsOf(lon, calls[c].args.lon)
                /\ IsTwoDecimalsOf(cnt, calls[c].args.radius)

\* What WeatherByRadius does request: the claimed query string with a comma
\* after the two decimals of lat and after the two decimals of lon.
RadiusParamsWithCommas ==
    \A c \in Callers :
        (Requested(c) /\ calls[c].method = "WeatherByRadius") =>
            LET b == calls[c].built
                lat == ParamValue(b, <<"l","a","t","=">>)
                lon == ParamValue(b, <<"l","o","n","=">>)
                cnt == ParamValue(b, <<"c","n","t","=">>)
            IN  /\ b = TxtBase \o TxtFindLat \o lat \o TxtLon \o lon \o TxtCnt \o cnt
                          \o TxtUnits \o calls[c].args.units
                /\ lat[Len(lat)] = "," /\ lon[Len(lon)] = ","
                /\ IsTwoDecimalsOf(SubSeq(lat, 1, Len(lat) - 1), calls[c].args.lat)
                /\ IsTwoDecimalsOf(SubSeq(lon, 1, Len(lon) - 1), calls[c].args.lon)
                /\ IsTwoDecimalsOf(cnt, calls[c].args.radius)

\* C12: WeatherByZone requests "box/city" with one bbox parameter whose value
\* is five comma-separated items, lat1, lon1, lat2, lon2 (two decimals each)
\* and zoom (a decimal integer) in that order, followed by "&units=" + units.
C12_ZoneBbox ==
    \A c \in Callers :
        (Requested(c) /\ calls[c].method = "WeatherByZone") =>
            LET b == calls[c].built
                a == calls[c].args
                v == ParamValue(b, <<"b","b","o","x","=">>)
                items == SplitComma(v)
            IN  /\ b = TxtBase \o TxtBoxBbox \o v \o TxtUnits \o a.units
                /\ Count(b, <<"b","b","o","x","=">>) = 1
                /\ Len(items) = 5
                /\ IsTwoDecimalsOf(items[1], a.lat)
                /\ IsTwoDecimalsOf(items[2], a.lon)
                /\ IsTwoDecimalsOf(items[3], a.lat2)
                /\ IsTwoDecimalsOf(items[4], a.lon2)
                /\ IsDecimalInt(items[5])
                /\ ReadInt(items[5]) = a.zoom

C12_Witness ==
    \E c \in Callers :
        /\ Requested(c)
        /\ calls[c].method = "WeatherByZone"
        /\ calls[c].args.lat = F(3, 3)
        /\ calls[c].args.lon = F(-46079, 8)
        /\ calls[c].args.lat2 = F(10422, 8)
        /\ calls[c].args.zoom = -1

\* C13: once data() has returned, the body of a response the GET produced
\* has been closed exactly once and is not open, whether the read succeeded
\* or failed and whatever the call goes on to return (not-found, decode
\* error, success); when the GET itself failed there is no body: none was
\* closed and none is open.
C13_BodyClosedOnce ==
    \A c \in Callers :
        LET k == calls[c]
        IN  /\ k.closes <= 1
            /\ k.open \in {0, 1}
            /\ k.pc \in {"check", "decode", "done"} =>
                  /\ k.open = 0
                  /\ k.net \in {"ok", "readerr"} => k.closes = 1
                  /\ k.net = "geterr" => k.closes = 0

C13_Witness ==
    \E c \in Callers :
        /\ Done(c)
        /\ calls[c].net = "readerr"
        /\ calls[c].closes = 1

\* An invocation that has ended: its outcome is with the caller (done) or the
\* process was aborted in it (panic).
Ended(c) == calls[c].pc \in {"done", "panic"}

\* C14: each invocation of a public query method issues exactly one GET and
\* then returns one outcome: never a second GET, and no invocation ends
\* without its one GET and its outcome, also not after a fetch failure, a
\* not-found result or a decode failure.
C14_OneGetOneOutcome ==
    \A c \in Callers :
        /\ calls[c].gets <= 1
        /\ calls[c].pc \in {"read", "check", "decode"} => calls[c].gets = 1
        /\ Ended(c) => (calls[c].gets = 1 /\ Done(c))

\* The part of C14 that is about retries: no invocation issues a second GET,
\* and one that returns an outcome has issued exactly one.
OneGetNoRetry ==
    \A c \in Callers :
        /\ calls[c].gets <= 1
        /\ calls[c].pc \in {"read", "check", "decode", "done"} => calls[c].gets = 1
        /\ calls[c].pc \in {"idle", "helper", "get", "panic"} => calls[c].gets = 0

\* The URL caller c's call requests when it runs alone: the URL its method
\* assembles from its own arguments, completed with the client's key.
AloneURL(c) ==
    LET a == calls[c].args
        m == calls[c].method
        built ==
            CASE m = "WeatherByName" -> WeatherByNameURL(TxtBase, a.name, a.units)
              [] m = "WeatherById" -> WeatherByIdURL(TxtBase, a.id, a.units)
              [] m = "WeatherByCoord" -> WeatherByCoordURL(TxtBase, a.lat, a.lon, a.units)
              [] m = "WeatherByZone" ->
                    WeatherByZoneURL(TxtBase, a.lat, a.lon, a.lat2, a.lon2, a.zoom, a.units)
              [] m = "WeatherByRadius" ->
                    WeatherByRadiusURL(TxtBase, a.lat, a.lon, a.radius, a.units)
              [] m = "WeatherByIds" -> WeatherByIdsURL(TxtBase, a.ids, a.units)
              [] m = "ForecastByName" -> ForecastByNameURL(TxtBase, a.name, a.days, a.units)
              [] m = "ForecastById" -> ForecastByIdURL(TxtBase, a.id, a.days, a.units)
              [] m = "ForecastByCoord" ->
                    ForecastByCoordURL(TxtBase, a.lat, a.lon, a.days, a.units)
    IN  built \o (IF Len(client.key) > 0 THEN TxtAppid \o client.key ELSE <<>>)

\* C15: with several callers interleaved on one Client, no step of any call
\* changes the client (key and baseURL stay what NewClient set), and the URL
\* each call requests is the URL it requests when it runs alone: the APPID is
\* in it once and nothing of another call's URL.
C15_ClientUnchangedCallsIndependent ==
    /\ [](\A c \in Callers :
            /\ calls[c].pc \in {"get", "read", "check", "decode", "done"} =>
                  /\ calls[c].url = AloneURL(c)
                  /\ Len(client.key) > 0 =>
                        Count(calls[c].url, TxtAppid) = Count(calls[c].built, TxtAppid) + 1
            /\ calls[c].pc # "idle" =>
                  (client.made /\ client.baseURL = TxtBase))
    /\ [][client.made => client' = client]_vars

C15_Witness ==
    /\ Len(client.key) > 0
    /\ calls["c1"].pc = "done" /\ calls["c1"].method = "WeatherByName"
    /\ calls["c2"].pc = "get" /\ calls["c2"].method = "ForecastById"

\* C16: whenever a public query method returns a non-nil error, what it
\* returns beside the error is the zero value of its result type: the empty
\* list for the collection methods, a record with no field filled otherwise.
C16_ZeroValueOnError ==
    \A c \in Callers :
        (Done(c) /\ calls[c].err # Nil) =>
            Result(calls[c]) =
                (IF calls[c].helper = "weatherSet" THEN <<>>
                 ELSE Zero(TStruct(Target(calls[c].helper))))

\* The part of C16 that the code keeps: the result is the zero value when the
\* error is a fetching error or the body is not well-formed JSON.
ZeroValueUnlessTypeMismatch ==
    \A c \in Callers :
        (Done(c) /\ calls[c].err # Nil
            /\ (Kind(c) \in {"fetch", "notfound"} \/ calls[c].body \in BadSyntaxBodies)) =>
            Result(calls[c]) =
                (IF calls[c].helper = "weatherSet" THEN <<>>
                 ELSE Zero(TStruct(Target(calls[c].helper))))

\* A float64 that is 0, as the decoder leaves a field it did not fill.
TxtNoFloat == [frac |-> FALSE, n |-> 0]

\* The Weather with id 2267057, name "Lisbon" and nothing else filled.
TxtMinimalWeather ==
    [coord |-> [lat |-> TxtNoFloat, lon |-> TxtNoFloat],
     sys |-> [type |-> 0, id |-> 0, country |-> "", sunrise |-> 0, sunset |-> 0],
     weather |-> <<>>,
     base |-> "",
     main |-> [temp |-> TxtNoFloat, humidity |-> 0, temp_min |-> TxtNoFloat,
               temp_max |-> TxtNoFloat, pressure |-> TxtNoFloat,
               sea_level |-> TxtNoFloat, grnd_level |-> TxtNoFloat],
     wind |-> [speed |-> TxtNoFloat, deg |-> TxtNoFloat, gust |-> TxtNoFloat],
     clouds |-> [all |-> 0],
     dt |-> 0,
     id |-> 2267057,
     name |-> "Lisbon",
     cod |-> 0]

\* C17: a well-formed JSON object that holds only a location id and name,
\* with or without keys the record does not name, decodes with a nil error
\* into a Weather whose id and name are those values, whose other numeric
\* fields are 0, string fields empty and list empty.
C17_MinimalDecodes ==
    \A c \in Callers :
        (Done(c) /\ calls[c].helper = "weather" /\ calls[c].net = "ok"
            /\ calls[c].body \in {BodyMinimal, BodyMinimalExtra}) =>
            /\ calls[c].decoded
            /\ calls[c].err = Nil
            /\ Result(calls[c]) = TxtMinimalWeather

C17_Witness ==
    \E c \in Callers :
        /\ Done(c)
        /\ calls[c].method = "WeatherById"
        /\ calls[c].net = "ok"
        /\ calls[c].body = BodyMinimalExtra
        /\ calls[c].v.name = "Lisbon"

\* A transport-level failure of caller c's call: the GET failed, the read
\* of the body failed, or the response has a status outside 200..299.
TransportFailure(c) ==
    \/ calls[c].net \in {"geterr", "readerr"}
    \/ calls[c].net = "ok" /\ calls[c].status \notin 200..299

\* C18: every transport-level failure of a call (connection error on the
\* GET, response with a non-success status, error while reading the body) is
\* reported as the fetch-failure error, and the decode step is not executed.
C18_TransportFailureIsFetchError ==
    \A c \in Callers :
        TransportFailure(c) =>
            /\ ~calls[c].decoded
            /\ calls[c].pc \in {"check", "done"}
            /\ Done(c) => calls[c].err = TxtFetchError(calls[c].method)

\* The part of C18 that the code keeps: a failed GET and a failed read are
\* reported as the fetching error without a decode.
GetOrReadErrorIsFetchError ==
    \A c \in Callers :
        calls[c].net \in {"geterr", "readerr"} =>
            /\ ~calls[c].decoded
            /\ calls[c].pc \in {"check", "done"}
            /\ Done(c) => calls[c].err = TxtFetchError(calls[c].method)

\* The keys callers construct clients with.
TxtKeys == {<<>>, <<"k","9">>}

\* C19: NewClient(key) can always be called and returns a client, makes no
\* network request, and the client holds the key as given (the empty one
\* too) and the base URL "http://api.openweathermap.org/data/2.5/", which is
\* the prefix of every URL the client requests later.
C19_NewClientKeyAndBase ==
    /\ [](/\ ~client.made => \A key \in TxtKeys : ENABLED NewClient(key)
          /\ client.made => (client.baseURL = TxtBase /\ client.key \in TxtKeys)
          /\ \A c \in Callers :
                calls[c].gets > 0 =>
                    (HasPrefix(calls[c].url, TxtBase)
                        /\ HasPrefix(calls[c].url, client.baseURL)))
    /\ [][(~client.made /\ client'.made) =>
            /\ \A key \in TxtKeys : NewClient(key) => client'.key = key
            /\ calls' = calls
            /\ \A c \in Callers : calls[c].gets = 0 /\ calls[c].net = "none"]_vars

C19_Witness ==
    /\ client.made
    /\ client.key = <<>>
    /\ \E c \in Callers : Requested(c) /\ calls[c].method = "WeatherByIds"

\* C20: whatever the units string (the empty one too), an invocation of a
\* public query method has "&units=" + units, unchanged, at the end of the URL
\* it assembles, meets no local error before the fetch, and issues the
\* GET.
C20_UnitsVerbatim ==
    \A c \in Callers :
        calls[c].pc # "idle" =>
            /\ HasSuffix(calls[c].built, TxtUnits \o calls[c].args.units)
            /\ calls[c].pc \in {"helper", "get"} => calls[c].err = Nil
            /\ Ended(c) => calls[c].gets = 1

\* The part of C20 that the code keeps: an invocation that assembled a URL
\* has "&units=" + units at its end, has no error before the fetch and has
\* issued the GET when it returns.
UnitsVerbatimInAssembledURL ==
    \A c \in Callers :
        calls[c].pc \notin {"idle", "panic"} =>
            /\ HasSuffix(calls[c].built, TxtUnits \o calls[c].args.units)
            /\ calls[c].pc \in {"helper", "get"} => calls[c].err = Nil
            /\ Done(c) => calls[c].gets = 1

\* The moves of a call from one position to the next, as the code makes them.
StepOrder ==
    {<<"idle", "helper">>, <<"idle", "panic">>, <<"helper", "get">>,
     <<"get", "read">>, <<"get", "check">>, <<"read", "check">>,
     <<"check", "decode">>, <<"check", "done">>, <<"decode", "done">>,
     <<"done", "idle">>, <<"done", "printed">>, <<"done", "abort">>,
     <<"printed", "idle">>}

\* The key as the helper appends it to the URL.
KeyPart == IF Len(client.key) > 0 THEN TxtAppid \o client.key ELSE <<>>

\* C21: within one call the steps come in one order: the URL is completed
\* with the optional APPID, the GET is issued, the body is read in full and
\* closed, the fetch error is tested, then the marker on the raw bytes, then
\* the JSON is decoded.  The body is closed before the marker test and before
\* the decode; a fetch error goes before not-found, not-found before a
\* decode failure.
C21_StepsInOrder ==
    /\ [](\A c \in Callers :
            LET k == calls[c]
            IN  /\ k.pc = "helper" => (k.gets = 0 /\ k.url = k.built)
                /\ k.pc = "get" => (k.gets = 0 /\ k.url = k.built \o KeyPart)
                /\ k.pc = "read" =>
                      (k.gets = 1 /\ k.open = 1 /\ k.closes = 0 /\ k.data = <<>>
                          /\ ~k.decoded /\ k.err = Nil)
                /\ k.pc = "check" =>
                      /\ k.gets = 1 /\ k.open = 0 /\ ~k.decoded /\ k.err = Nil
                      /\ k.net = "ok" => (k.data = k.body /\ k.closes = 1)
                /\ (k.pc = "decode" \/ k.decoded) =>
                      /\ k.open = 0 /\ k.closes = 1
                      /\ k.net = "ok" /\ k.data = k.body
                      /\ k.body \notin MarkerBodies
                /\ (Done(c) /\ k.net \in {"geterr", "readerr"}) =>
                      (~k.decoded /\ k.err = TxtFetchError(k.method))
                /\ (Done(c) /\ k.net = "ok" /\ k.body \in MarkerBodies) =>
                      (~k.decoded /\ k.err = TxtFetchError(k.method))
                /\ (Done(c) /\ k.net = "ok" /\ k.body \notin MarkerBodies) => k.decoded)
    /\ [][\A c \in Callers :
            calls'[c].pc # calls[c].pc => <<calls[c].pc, calls'[c].pc>> \in StepOrder]_vars

C21_Witness ==
    \E c \in Callers :
        /\ Done(c)
        /\ calls[c].net = "ok"
        /\ calls[c].body = BodyMarkerInTruncated
        /\ calls[c].closes = 1

\* The not-found payloads the marker does not match.
UnmatchedNotFound == {BodyNotFoundNumber, BodyNotFoundSpaced}

\* C22 as stated: a body with the marker anywhere in it is rejected, also
\* one that is a valid success payload otherwise; a not-found payload with
\* the code as a number or with whitespace after the colon is passed to the
\* decoder, and the single-weather accessors return it as a Weather with
\* Cod = 404 and a nil error.
C22_UnmatchedNotFoundIsWeather404 ==
    \A c \in Callers :
        (Done(c) /\ calls[c].net = "ok") =>
            /\ calls[c].body \in MarkerBodies =>
                  (~calls[c].decoded /\ calls[c].err = TxtFetchError(calls[c].method))
            /\ calls[c].body \in UnmatchedNotFound =>
                  /\ calls[c].decoded
                  /\ calls[c].helper = "weather" =>
                        (calls[c].err = Nil /\ calls[c].v.cod = 404)

\* C22 as amended: a body with the marker anywhere in it is rejected; a
\* not-found payload with the code as a number or with whitespace after the
\* colon is passed to the decoder; with the code as a number the
\* single-weather accessors return a Weather with Cod = 404 and a nil error;
\* with the code as a string after whitespace they return the decoding error
\* and Cod = 0 (Cod is an int), and the forecast accessors return a Forecast
\* with Cod = "404" and a nil error.
C22_MarkerIsSubstringTest ==
    \A c \in Callers :
        (Done(c) /\ calls[c].net = "ok") =>
            /\ calls[c].body \in MarkerBodies =>
                  (~calls[c].decoded /\ calls[c].err = TxtFetchError(calls[c].method))
            /\ calls[c].body \in UnmatchedNotFound => calls[c].decoded
            /\ (calls[c].body = BodyNotFoundNumber /\ calls[c].helper = "weather") =>
                  (calls[c].err = Nil /\ calls[c].v.cod = 404)
            /\ (calls[c].body = BodyNotFoundSpaced /\ calls[c].helper = "weather") =>
                  (calls[c].err = TxtDecodeError(calls[c].method) /\ calls[c].v.cod = 0)
            /\ (calls[c].body = BodyNotFoundSpaced /\ calls[c].helper = "forecast") =>
                  (calls[c].err = Nil /\ calls[c].v.cod = "404")

C22_Witness ==
    \E c1 \in Callers :
        /\ Done(c1)
        /\ calls[c1].net = "ok"
        /\ calls[c1].method = "WeatherByCoord"
        /\ calls[c1].body = BodyNotFoundNumber
        /\ calls[c1].v.cod = 404

\* C23: a decode that succeeds may leave the condition list empty, and
\* String reads its entry 0 whatever its length: called on a Weather that an
\* accessor returned with a nil error, String returns its text exactly when
\* the list has an entry (of the payloads here, the one with a "weather"
\* key), and aborts the process with an index out of range when it has none.
C23_StringNeedsCondition ==
    \A c \in Callers :
        LET k == calls[c]
        IN  /\ k.pc = "printed" =>
                  /\ Len(k.v.weather) >= 1
                  /\ Len(k.str) = 23
                  /\ k.str[9] = 800 /\ k.str[10] = "Clear"
            /\ k.pc = "abort" =>
                  (Len(k.v.weather) = 0 /\ crashed /\ k.str = <<>>)
            /\ k.pc \in {"printed", "abort"} =>
                  /\ k.decoded /\ k.err = Nil
                  /\ k.method \in {"WeatherByName", "WeatherById", "WeatherByCoord"}
                  /\ (k.pc = "printed") <=> (k.body = BodyWeather)

C23_Witness ==
    \E c \in Callers :
        /\ calls[c].pc = "abort"
        /\ calls[c].method = "WeatherByName"
        /\ calls[c].body = BodyMinimal
        /\ calls[c].err = Nil

\* C24: for a negative days value ForecastByName, ForecastById and
\* ForecastByCoord do what they do for days = 0: they request "forecast" with
\* the primary parameters and units and no cnt parameter, and return no local
\* error.
C24_NegativeDaysAsZero ==
    \A c \in Callers :
        (calls[c].pc # "idle" /\ calls[c].method \in ForecastMethods
            /\ calls[c].args.days < 0) =>
            /\ calls[c].built = TxtBase \o TxtForecastPath \o <<"?">> \o ForecastPrimary(c)
                                        \o TxtUnits \o calls[c].args.units
            /\ ~Contains(calls[c].built, TxtCnt)
            /\ calls[c].pc \in {"helper", "get"} => calls[c].err = Nil
            /\ calls[c].pc # "panic"
            /\ Done(c) => calls[c].gets = 1

C24_Witness ==
    \E c \in Callers :
        /\ Requested(c)
        /\ calls[c].method = "ForecastByCoord"
        /\ calls[c].args.days = -MaxDays

TxtQ == <<"?","q","=">>
TxtAmp == <<"&">>
TxtNameWithAppid == <<"x","&","A","P","P","I","D","=","k","9">>

\* C25: name, units and key go into the URL as they are, with no escaping:
\* from "?q=" on, the URL of WeatherByName and of ForecastByName is the
\* concatenation of the parts, every "&" of the parts is an "&" of the URL,
\* the name "x&APPID=k9" puts a second APPID parameter in the request, and
\* the pair ("&units=", "") requests the URL of the pair ("", "&units=").
C25_NoEscaping ==
    \A c \in Callers :
        (Requested(c) /\ calls[c].method \in {"WeatherByName", "ForecastByName"}) =>
            LET u == calls[c].url
                a == calls[c].args
                cnt == IF calls[c].method = "ForecastByName" /\ a.days > 0
                       THEN TxtCnt \o Itoa(a.days) ELSE <<>>
            IN  /\ From(u, Index(u, TxtQ)) =
                        TxtQ \o a.name \o cnt \o TxtUnits \o a.units \o KeyPart
                /\ Count(u, TxtAmp) =
                        Count(a.name, TxtAmp) + Count(a.units, TxtAmp) + 1
                        + (IF Len(cnt) > 0 THEN 1 ELSE 0)
                        + (IF Len(client.key) > 0 THEN 1 ELSE 0)
                /\ (a.name = TxtNameWithAppid /\ Len(client.key) > 0) =>
                        Count(u, TxtAppid \o client.key) = 2
                /\ (calls[c].method = "WeatherByName" /\ a.name = TxtUnits /\ a.units = <<>>) =>
                        u = TxtBase \o TxtWeatherQ \o <<>> \o TxtUnits \o TxtUnits \o KeyPart

\* The URL requested is the URL of another (name, units) pair as well.
C25_Witness ==
    \E c \in Callers :
        /\ Requested(c)
        /\ calls[c].method = "WeatherByName"
        /\ \E name \in Names, units \in UnitsTokens :
              /\ <<name, units>> # <<calls[c].args.name, calls[c].args.units>>
              /\ calls[c].url = TxtBase \o TxtWeatherQ \o name \o TxtUnits \o units
                                        \o KeyPart

\* The Weather with the given id and nothing else filled.
TxtWeatherWithId(id) == [TxtMinimalWeather EXCEPT !.id = id, !.name = ""]

\* C26: WeatherByZone, WeatherByRadius and WeatherByIds return the sequence
\* decoded from the payload's "list" key, in payload order and of the same
\* length; the count is decoded and not used: for the payload with cnt 3 and
\* two entries two entries are returned; a payload without "list" gives an
\* empty result and a nil error.
C26_ListReturnedAsDecoded ==
    \A c \in Callers :
        (Done(c) /\ calls[c].helper = "weatherSet" /\ calls[c].net = "ok") =>
            /\ calls[c].body = BodySet =>
                  /\ calls[c].err = Nil
                  /\ Result(calls[c]) =
                        <<TxtWeatherWithId(2267057), TxtWeatherWithId(2735943)>>
                  /\ calls[c].v.cnt = 3
            /\ calls[c].body \in {BodyMinimal, BodyMinimalExtra, BodyWeather} =>
                  /\ calls[c].err = Nil
                  /\ Result(calls[c]) = <<>>
                  /\ calls[c].v.cnt = 0
            /\ calls[c].err = Nil => Result(calls[c]) = calls[c].v.list

C26_Witness ==
    \E c \in Callers :
        /\ Done(c)
        /\ calls[c].method = "WeatherByZone"
        /\ calls[c].net = "ok"
        /\ calls[c].body = BodySet
        /\ Len(calls[c].v.list) = 2

\* C27: the status of the response is never looked at: whatever the status,
\* the body is read and closed, the marker test and the decode run, and the
\* outcome is the one the body alone decides; a response of a non-2xx status
\* with a decodable body without the marker returns a nil error.
C27_StatusNeverInspected ==
    \A c \in Callers :
        (calls[c].net = "ok" /\ calls[c].status \in Statuses) =>
            /\ calls[c].pc \in {"check", "decode", "done", "printed", "abort"}
            /\ calls[c].data = calls[c].body
            /\ calls[c].closes = 1
            /\ Done(c) =>
                  /\ calls[c].decoded <=> (calls[c].body \notin MarkerBodies)
                  /\ calls[c].err =
                        (CASE Kind(c) = "notfound" -> TxtFetchError(calls[c].method)
                           [] Kind(c) = "decode" -> TxtDecodeError(calls[c].method)
                           [] Kind(c) = "success" -> Nil)

C27_Witness ==
    \E c \in Callers :
        /\ Done(c)
        /\ calls[c].net = "ok"
        /\ calls[c].status = 404
        /\ calls[c].body = BodyWeather
        /\ calls[c].method = "WeatherById"
        /\ calls[c].err = Nil

====
